---- MODULE Spec2Model ----
(***************************************************************************)
(* State-machine model of the scanline PPU core in src/src/gpu/mod.rs:     *)
(* the mode scheduler (Gpu::tick and its four mode handlers), the pixel    *)
(* pipeline (fetcher_tick, bg_fifo_tick) and the bus arbiter (set_byte,    *)
(* get_byte).  The Gpu struct is one record, `gpu`; every method of the    *)
(* source is an operator from a Gpu record to a Gpu record.                *)
(***************************************************************************)
EXTENDS Integers, Sequences, FiniteSets, TLC

VARIABLES gpu, obs, last, steps

vars == <<gpu, obs, last, steps>>

---------------------------------------------------------------------------
(* Program constants (mod.rs:9-16 and the literals of the mode handlers). *)

SCREEN_WIDTH == 160
SCREEN_HEIGHT == 144
SCREEN_DEPTH == 4
VRAM_OFFSET == 32768
VRAM_END == 40959
OAM_OFFSET == 65024
OAM_END == 65183
PALETTE_RAM_SIZE == 64
SEARCH_CYCLES == 80
HBLANK_CYCLES == 204
VBLANK_LINE_CYCLES == 456
LAST_VISIBLE_LINE == 143
WRAP_LINE == 153

(* Model bounds. *)
MaxTicks == 3
MaxSteps == 3
MaxOps == 3
MaxCycles == 260

(* Inputs the actions draw from. *)
Modes == {"OamSearch", "PixelTransfer", "HBlank", "VBlank"}
FrameBudgets == {1, 80, 204, 456, 4560, 70224}
BusBudgets == {80, 204}
SplitBudgets == {0, 1, 80, 204}
VramAddrs == {32768, 32769, 38912}
OamAddrs == {65024}
WriteAddrs == {32768, 65024, 65344, 65359}
ReadAddrs == {32768, 65024}
Values == {0, 129}
Byte == 0..255
ScrollValues == {0, 3}
IrqBudgets == {80, 456, 70224}
StatValues == {32, 64, 120}
LycValues == {0, 148, 153}
TileIndexes == {5, 255}
PlanePairs == {<<0, 0>>, <<178, 29>>}

---------------------------------------------------------------------------
(* Byte arithmetic. *)

\* value & mask, for a mask with a single bit set (mask = 2^k)
BitAnd(value, mask) == ((value \div mask) % 2) * mask

\* u8::wrapping_add
wrapping_add(a, b) == (a + b) % 256

\* a Vec<u8> that is zero except at the addresses the model writes
MemRead(mem, idx) == IF idx \in DOMAIN mem THEN mem[idx] ELSE 0

\* The framebuffer Vec, 4 bytes a pixel: `fill` is the byte every pixel held
\* after the last fill, `px` maps the pixels written since to their 4 bytes.
LcdByte(lcd, idx) ==
  IF (idx \div 4) \in DOMAIN lcd.px
  THEN lcd.px[idx \div 4][(idx % 4) + 1]
  ELSE lcd.fill

LcdWrite(lcd, pixel, bytes) ==
  [lcd EXCEPT !.px = IF pixel \in DOMAIN @
                     THEN [@ EXCEPT ![pixel] = bytes]
                     ELSE (pixel :> bytes) @@ @]

---------------------------------------------------------------------------
(* Register-bank defaults and views (crate::gpu::registers). *)

LcdControl_default(display_enable) ==
  [display_enable |-> display_enable, win_tilemap_sel |-> 0,
   win_display_enable |-> 0, bg_tiledata_sel |-> 0, bg_tilemap_sel |-> 0,
   obj_size |-> 0, obj_display_enable |-> 0, lcdc0 |-> 0]

LcdStatus_default(mode) ==
  [lyc_int |-> 0, oam_int |-> 0, vblank_int |-> 0, hblank_int |-> 0,
   coincident |-> 0, mode |-> mode]

LcdPosition_default ==
  [scroll_y |-> 0, scroll_x |-> 0, window_y |-> 0, window_x |-> 0,
   ly |-> 0, lyc |-> 0, lx |-> 0]

MonochromePalette_default == [bgp |-> 0, obp0 |-> 0, obp1 |-> 0]

ColorPalette_default ==
  [bgp_idx |-> 0, bgp_auto_incr |-> FALSE, obp_idx |-> 0, obp_auto_incr |-> FALSE]

display_enabled(lcdc) == lcdc.display_enable # 0

bg_tilemap(lcdc) == IF lcdc.bg_tilemap_sel = 0 THEN 38912 ELSE 39936

---------------------------------------------------------------------------
(* Fetcher::new, BgFifo::new, Gpu::new. *)

Fetcher_new ==
  [state |-> "Sleep0", fetching |-> "Background", x |-> 0, tile_num |-> 0,
   low |-> 255, high |-> 255]

BgFifo_new == [q |-> <<>>, x |-> 0, scx |-> 0]

Gpu_new(emu_mode, lcdc, stat) ==
  [lcd |-> [fill |-> 0, px |-> [i \in {} |-> 0]],
   vram0 |-> [a \in VramAddrs |-> 0],
   vram1 |-> [a \in VramAddrs |-> 0],
   bgp_ram |-> [i \in 0..(PALETTE_RAM_SIZE - 1) |-> 0],
   obp_ram |-> [i \in 0..(PALETTE_RAM_SIZE - 1) |-> 0],
   oam |-> [a \in OamAddrs |-> 0],
   cgbp |-> ColorPalette_default,
   emu_mode |-> emu_mode,
   lcdc |-> lcdc,
   dmgp |-> MonochromePalette_default,
   position |-> LcdPosition_default,
   stat |-> stat,
   clock |-> 0,
   request_vblank_int |-> FALSE,
   request_lcd_int |-> FALSE,
   vram_bank |-> 0,
   win_counter |-> 0,
   oam_dma_active |-> FALSE,
   bg_fifo |-> BgFifo_new,
   fetcher |-> Fetcher_new,
   borrowed_cycles |-> 0]

---------------------------------------------------------------------------
(* Interrupt latches, coincidence and mode changes. *)

request_lcd_interrupt(g) == [g EXCEPT !.request_lcd_int = TRUE]

request_vblank_interrupt(g) == [g EXCEPT !.request_vblank_int = TRUE]

check_coincidence(g) ==
  IF g.position.ly = g.position.lyc
  THEN LET g1 == [g EXCEPT !.stat.coincident = 4]
       IN IF g1.stat.lyc_int # 0 THEN request_lcd_interrupt(g1) ELSE g1
  ELSE g

\* a mode change that raises the status interrupt for every mode whose
\* neighbour's enable bit is set: Transfer entries fire on hblank_int
change_mode_transfer_fires(g, mode) ==
  LET g1 == [g EXCEPT !.stat.mode = mode]
  IN CASE mode = "OamSearch" /\ g1.stat.oam_int # 0 -> request_lcd_interrupt(g1)
       [] mode = "HBlank" /\ g1.stat.hblank_int # 0 -> request_lcd_interrupt(g1)
       [] mode = "VBlank" /\ g1.stat.vblank_int # 0 -> request_lcd_interrupt(g1)
       [] mode = "PixelTransfer" /\ g1.stat.hblank_int # 0 -> request_lcd_interrupt(g1)
       [] OTHER -> g1

change_mode(g, mode) ==
  LET g1 == [g EXCEPT !.stat.mode = mode]
  IN CASE mode = "OamSearch" /\ g1.stat.oam_int # 0 -> request_lcd_interrupt(g1)
       [] mode = "HBlank" /\ g1.stat.hblank_int # 0 -> request_lcd_interrupt(g1)
       [] mode = "VBlank" /\ g1.stat.vblank_int # 0 -> request_lcd_interrupt(g1)
       [] OTHER -> g1

clear_screen(g) == [g EXCEPT !.lcd = [fill |-> 255, px |-> [i \in {} |-> 0]]]

---------------------------------------------------------------------------
(* Bus reads. *)

get_vram_byte(g, addr, bank) ==
  IF bank = 0 THEN MemRead(g.vram0, addr) ELSE MemRead(g.vram1, addr)

\* impl From<&GpuMode> for u8
mode_u8(mode) ==
  CASE mode = "HBlank" -> 0
    [] mode = "VBlank" -> 1
    [] mode = "OamSearch" -> 2
    [] mode = "PixelTransfer" -> 3

lcdc_u8(lcdc) ==
  lcdc.display_enable + lcdc.win_tilemap_sel + lcdc.win_display_enable
  + lcdc.bg_tiledata_sel + lcdc.bg_tilemap_sel + lcdc.obj_size
  + lcdc.obj_display_enable + lcdc.lcdc0

stat_u8(stat) ==
  stat.lyc_int + stat.oam_int + stat.vblank_int + stat.hblank_int
  + stat.coincident + mode_u8(stat.mode)

cgbp_index_u8(idx, auto_incr) == idx + (IF auto_incr THEN 128 ELSE 0)

\* the value the panic! arm stands for: the call does not return
Panic == -1

\* a video-memory read arm with the DMA test inverted
get_byte_vram_inverted(g, addr) ==
  IF g.stat.mode = "PixelTransfer" /\ g.oam_dma_active
  THEN 0
  ELSE get_vram_byte(g, addr, g.vram_bank)

\* the 0x8000..=0x9FFF arm of get_byte
get_byte_vram(g, addr) ==
  IF g.stat.mode = "PixelTransfer" /\ ~g.oam_dma_active
  THEN 0
  ELSE get_vram_byte(g, addr, g.vram_bank)

\* the 0xFE00..=0xFE9F arm of get_byte
get_byte_oam(g, addr) ==
  IF g.stat.mode \in {"OamSearch", "PixelTransfer"} /\ ~g.oam_dma_active
  THEN 0
  ELSE MemRead(g.oam, addr)

get_byte(g, addr) ==
  CASE addr \in VRAM_OFFSET..VRAM_END -> get_byte_vram(g, addr)
    [] addr \in OAM_OFFSET..OAM_END -> get_byte_oam(g, addr)
    [] addr = 65344 -> lcdc_u8(g.lcdc)
    [] addr = 65345 -> stat_u8(g.stat)
    [] addr = 65346 -> g.position.scroll_y
    [] addr = 65347 -> g.position.scroll_x
    [] addr = 65348 -> g.position.ly
    [] addr = 65349 -> g.position.lyc
    [] addr = 65350 -> 255
    [] addr = 65351 -> g.dmgp.bgp
    [] addr = 65352 -> g.dmgp.obp0
    [] addr = 65353 -> g.dmgp.obp1
    [] addr = 65354 -> g.position.window_y
    [] addr = 65355 -> g.position.window_x
    [] addr = 65359 -> 254 + g.vram_bank
    [] addr = 65384 /\ g.emu_mode = "Cgb" ->
         cgbp_index_u8(g.cgbp.bgp_idx, g.cgbp.bgp_auto_incr)
    [] addr = 65385 /\ g.emu_mode = "Cgb" -> g.bgp_ram[g.cgbp.bgp_idx]
    [] addr = 65386 /\ g.emu_mode = "Cgb" ->
         cgbp_index_u8(g.cgbp.obp_idx, g.cgbp.obp_auto_incr)
    [] addr = 65387 /\ g.emu_mode = "Cgb" -> g.obp_ram[g.cgbp.obp_idx]
    [] OTHER -> Panic

\* the read reaches the panic! arm
get_byte_panics(g, addr) == get_byte(g, addr) = Panic

---------------------------------------------------------------------------
(* Pixel pipeline: BgFifo, the colour resolver, the FIFO and fetcher steps. *)

size(bg_fifo) == Len(bg_fifo.q)

allow_push(bg_fifo) == Len(bg_fifo.q) <= 8

\* a push that takes the plane bits least significant bit first
push_lsb_first(bg_fifo, low, high) ==
  [bg_fifo EXCEPT !.q = @ \o [i \in 1..8 |->
      ((low \div (2 ^ (i - 1))) % 2) + 2 * ((high \div (2 ^ (i - 1))) % 2)]]

\* BgFifo::push: eight 2-bit indices, most significant bit first
push(bg_fifo, low, high) ==
  [bg_fifo EXCEPT !.q = @ \o [i \in 1..8 |->
      ((low \div (2 ^ (8 - i))) % 2) + 2 * ((high \div (2 ^ (8 - i))) % 2)]]

get_rgb(value, palette) ==
  LET shade == (palette \div (2 ^ (2 * value))) % 4
  IN CASE shade = 0 -> <<224, 247, 208>>
       [] shade = 1 -> <<136, 192, 112>>
       [] shade = 2 -> <<52, 104, 86>>
       [] OTHER -> <<8, 23, 33>>

update_screen_row(g, x, rgb) ==
  [g EXCEPT !.lcd = LcdWrite(@, g.position.ly * SCREEN_WIDTH + x,
                             <<rgb[1], rgb[2], rgb[3], 255>>)]

bg_fifo_tick(g) ==
  IF size(g.bg_fifo) < 8
  THEN g
  ELSE IF g.bg_fifo.scx > 0
  THEN [g EXCEPT !.bg_fifo.q = Tail(@),
                 !.bg_fifo.scx = @ - 1,
                 !.borrowed_cycles = @ + 1]
  ELSE LET value == Head(g.bg_fifo.q)
           g1 == [g EXCEPT !.bg_fifo.q = Tail(@)]
           g2 == update_screen_row(g1, g1.position.lx, get_rgb(value, g1.dmgp.bgp))
       IN [g2 EXCEPT !.position.lx = @ + 1]

\* a tile-data address that forgets the `as i8` cast of the index
tiledata_addr_unsigned(sel, idx) ==
  IF sel = 0
  THEN 34816 + ((idx + 128) % 65536) * 16
  ELSE 32768 + idx * 16

tiledata_addr(sel, idx) ==
  IF sel = 0
  THEN 34816 + (((IF idx >= 128 THEN idx - 256 ELSE idx) + 128) % 65536) * 16
  ELSE 32768 + idx * 16

fetcher_tick(g) ==
  CASE g.fetcher.state = "Sleep0" ->
         [g EXCEPT !.fetcher.state = "ReadTileNumber"]
    [] g.fetcher.state = "ReadTileNumber" ->
         LET base == bg_tilemap(g.lcdc)
             row == wrapping_add(g.position.ly, g.position.scroll_y) \div 8
             col == ((g.position.scroll_x \div 8) + g.fetcher.x) % 32
             g1 == IF g.fetcher.fetching = "Background"
                   THEN [g EXCEPT !.fetcher.tile_num =
                                     get_byte(g, base + row * 32 + col)]
                   ELSE g
         IN [g1 EXCEPT !.fetcher.state = "Sleep1"]
    [] g.fetcher.state = "Sleep1" ->
         [g EXCEPT !.fetcher.state = "ReadTileDataLow"]
    [] g.fetcher.state = "ReadTileDataLow" ->
         LET row == wrapping_add(g.position.ly, g.position.scroll_y) % 8
             tile_addr == tiledata_addr(g.lcdc.bg_tiledata_sel, g.fetcher.tile_num)
         IN [g EXCEPT !.fetcher.low = get_byte(g, tile_addr + row * 2),
                      !.fetcher.state = "Sleep2"]
    [] g.fetcher.state = "Sleep2" ->
         [g EXCEPT !.fetcher.state = "ReadTileDataHigh"]
    [] g.fetcher.state = "ReadTileDataHigh" ->
         LET row == wrapping_add(g.position.ly, g.position.scroll_y) % 8
             tile_addr == tiledata_addr(g.lcdc.bg_tiledata_sel, g.fetcher.tile_num)
         IN [g EXCEPT !.fetcher.high = get_byte(g, tile_addr + row * 2 + 1),
                      !.fetcher.state = "Push0"]
    [] g.fetcher.state = "Push0" ->
         [g EXCEPT !.fetcher.x = (@ + 1) % 32,
                   !.fetcher.state = "Push1"]
    [] g.fetcher.state = "Push1" ->
         IF allow_push(g.bg_fifo)
         THEN [g EXCEPT !.bg_fifo = push(@, g.fetcher.low, g.fetcher.high),
                        !.fetcher.state = "Sleep0"]
         ELSE g
    [] OTHER -> g

---------------------------------------------------------------------------
(* Scanline mode scheduler.  A mode handler returns the Gpu and the cycles *)
(* it did not consume.                                                     *)

\* a Search handler that drops the cycles left over at the mode boundary
oam_search_tick_lossy(g, cycles) ==
  IF g.clock + cycles >= SEARCH_CYCLES
  THEN [g |-> change_mode([g EXCEPT !.clock = 0], "PixelTransfer"), cycles |-> 0]
  ELSE [g |-> [g EXCEPT !.clock = @ + cycles], cycles |-> 0]

oam_search_tick(g, cycles) ==
  IF g.clock + cycles >= SEARCH_CYCLES
  THEN [g |-> change_mode([g EXCEPT !.clock = 0], "PixelTransfer"),
        cycles |-> g.clock + cycles - SEARCH_CYCLES]
  ELSE [g |-> [g EXCEPT !.clock = @ + cycles], cycles |-> 0]

\* a loop body that runs the FIFO step before the fetcher step
pixel_transfer_step_fifo_first(s) ==
  IF s.cycles > 0 /\ s.g.position.lx < SCREEN_WIDTH
  THEN [g |-> fetcher_tick(bg_fifo_tick(s.g)), cycles |-> s.cycles - 1]
  ELSE s

\* the body of the while loop of pixel_transfer_tick, on [g, cycles]
pixel_transfer_step(s) ==
  IF s.cycles > 0 /\ s.g.position.lx < SCREEN_WIDTH
  THEN [g |-> bg_fifo_tick(fetcher_tick(s.g)), cycles |-> s.cycles - 1]
  ELSE s

\* up to 2^k iterations of the loop (the recursion is as deep as k, not as
\* the iteration count)
RECURSIVE pixel_transfer_run(_, _)
pixel_transfer_run(s, k) ==
  IF ~(s.cycles > 0 /\ s.g.position.lx < SCREEN_WIDTH)
  THEN s
  ELSE IF k = 0
  THEN pixel_transfer_step(s)
  ELSE pixel_transfer_run(pixel_transfer_run(s, k - 1), k - 1)

\* while cycles > 0 && lx < SCREEN_WIDTH { fetcher_tick; bg_fifo_tick; cycles -= 1 }
RECURSIVE pixel_transfer_loop(_, _)
pixel_transfer_loop(s, k) ==
  IF s.cycles > 0 /\ s.g.position.lx < SCREEN_WIDTH
  THEN pixel_transfer_loop(pixel_transfer_run(s, k), k + 1)
  ELSE s

pixel_transfer_tick(g, cycles) ==
  LET r == pixel_transfer_loop([g |-> g, cycles |-> cycles], 0)
  IN IF r.g.position.lx >= SCREEN_WIDTH
     THEN [g |-> change_mode(r.g, "HBlank"), cycles |-> r.cycles]
     ELSE r

\* the end of a line in hblank_tick, up to the call of change_mode:
\* clock = 0; ly += 1; check_coincidence()
hblank_line_end(g) ==
  check_coincidence([g EXCEPT !.clock = 0, !.position.ly = @ + 1])

\* an HBlank handler that enters VBlank without requesting the vertical-blank
\* interrupt
hblank_tick_silent(g, cycles) ==
  IF g.clock + cycles >= HBLANK_CYCLES - g.borrowed_cycles
  THEN LET g2 == hblank_line_end(g)
       IN [g |-> IF g2.position.ly > LAST_VISIBLE_LINE
                 THEN change_mode(g2, "VBlank")
                 ELSE change_mode(g2, "OamSearch"),
           cycles |-> g.clock + cycles - (HBLANK_CYCLES - g.borrowed_cycles)]
  ELSE [g |-> [g EXCEPT !.clock = @ + cycles], cycles |-> 0]

hblank_tick(g, cycles) ==
  IF g.clock + cycles >= HBLANK_CYCLES - g.borrowed_cycles
  THEN LET g2 == hblank_line_end(g)
       IN [g |-> IF g2.position.ly > LAST_VISIBLE_LINE
                 THEN request_vblank_interrupt(change_mode(g2, "VBlank"))
                 ELSE change_mode(g2, "OamSearch"),
           cycles |-> g.clock + cycles - (HBLANK_CYCLES - g.borrowed_cycles)]
  ELSE [g |-> [g EXCEPT !.clock = @ + cycles], cycles |-> 0]

\* a VBlank handler that wraps the line counter one period late
vblank_tick_late_wrap(g, cycles) ==
  IF g.clock + cycles >= VBLANK_LINE_CYCLES
  THEN LET g1 == [g EXCEPT !.clock = 0, !.position.ly = @ + 1]
           g2 == IF g1.position.ly = WRAP_LINE + 1
                 THEN check_coincidence([g1 EXCEPT !.position.ly = 0])
                 ELSE g1
           g3 == IF g2.position.ly = 1
                 THEN change_mode([g2 EXCEPT !.position.ly = 0], "OamSearch")
                 ELSE g2
       IN [g |-> g3, cycles |-> g.clock + cycles - VBLANK_LINE_CYCLES]
  ELSE [g |-> [g EXCEPT !.clock = @ + cycles], cycles |-> 0]

\* a VBlank handler that checks the coincidence at line 153 before the reset
vblank_tick_check_before_reset(g, cycles) ==
  IF g.clock + cycles >= VBLANK_LINE_CYCLES
  THEN LET g1 == [g EXCEPT !.clock = 0, !.position.ly = @ + 1]
           g2 == IF g1.position.ly = WRAP_LINE
                 THEN [check_coincidence(g1) EXCEPT !.position.ly = 0]
                 ELSE g1
           g3 == IF g2.position.ly = 1
                 THEN change_mode([g2 EXCEPT !.position.ly = 0], "OamSearch")
                 ELSE g2
       IN [g |-> g3, cycles |-> g.clock + cycles - VBLANK_LINE_CYCLES]
  ELSE [g |-> [g EXCEPT !.clock = @ + cycles], cycles |-> 0]

vblank_tick(g, cycles) ==
  IF g.clock + cycles >= VBLANK_LINE_CYCLES
  THEN LET g1 == [g EXCEPT !.clock = 0, !.position.ly = @ + 1]
           g2 == IF g1.position.ly = WRAP_LINE
                 THEN check_coincidence([g1 EXCEPT !.position.ly = 0])
                 ELSE g1
           g3 == IF g2.position.ly = 1
                 THEN change_mode([g2 EXCEPT !.position.ly = 0], "OamSearch")
                 ELSE g2
       IN [g |-> g3, cycles |-> g.clock + cycles - VBLANK_LINE_CYCLES]
  ELSE [g |-> [g EXCEPT !.clock = @ + cycles], cycles |-> 0]

\* one iteration of the while loop of Gpu::tick: the match on stat.mode
mode_tick(g, cycles) ==
  CASE g.stat.mode = "OamSearch" -> oam_search_tick(g, cycles)
    [] g.stat.mode = "PixelTransfer" -> pixel_transfer_tick(g, cycles)
    [] g.stat.mode = "HBlank" -> hblank_tick(g, cycles)
    [] g.stat.mode = "VBlank" -> vblank_tick(g, cycles)

---------------------------------------------------------------------------
(* Bus writes. *)

set_vram_byte(g, addr, value, bank) ==
  IF addr \in VramAddrs
  THEN IF bank = 0
       THEN [g EXCEPT !.vram0[addr] = value]
       ELSE [g EXCEPT !.vram1[addr] = value]
  ELSE g

set_oam_byte(g, addr, value) ==
  IF addr \in OamAddrs THEN [g EXCEPT !.oam[addr] = value] ELSE g

\* a control write that forgets to reset the line counter on display-off
set_lcdc_keeps_line(g, value) ==
  LET old_display_enable == g.lcdc.display_enable
      g1 == [g EXCEPT !.lcdc.display_enable = BitAnd(value, 128)]
      g2 == IF old_display_enable # 0 /\ g1.lcdc.display_enable = 0
            THEN clear_screen([change_mode(g1, "HBlank") EXCEPT
                                 !.win_counter = 0,
                                 !.clock = 0])
            ELSE g1
  IN [g2 EXCEPT !.lcdc.win_tilemap_sel = BitAnd(value, 64),
                !.lcdc.win_display_enable = BitAnd(value, 32),
                !.lcdc.bg_tiledata_sel = BitAnd(value, 16),
                !.lcdc.bg_tilemap_sel = BitAnd(value, 8),
                !.lcdc.obj_size = BitAnd(value, 4),
                !.lcdc.obj_display_enable = BitAnd(value, 2),
                !.lcdc.lcdc0 = BitAnd(value, 1)]

\* the 0xFF40 arm of set_byte
set_lcdc(g, value) ==
  LET old_display_enable == g.lcdc.display_enable
      g1 == [g EXCEPT !.lcdc.display_enable = BitAnd(value, 128)]
      g2 == IF old_display_enable # 0 /\ g1.lcdc.display_enable = 0
            THEN clear_screen([change_mode(g1, "HBlank") EXCEPT
                                 !.position.ly = 0,
                                 !.win_counter = 0,
                                 !.clock = 0])
            ELSE g1
  IN [g2 EXCEPT !.lcdc.win_tilemap_sel = BitAnd(value, 64),
                !.lcdc.win_display_enable = BitAnd(value, 32),
                !.lcdc.bg_tiledata_sel = BitAnd(value, 16),
                !.lcdc.bg_tilemap_sel = BitAnd(value, 8),
                !.lcdc.obj_size = BitAnd(value, 4),
                !.lcdc.obj_display_enable = BitAnd(value, 2),
                !.lcdc.lcdc0 = BitAnd(value, 1)]

\* a video-memory write arm without the Transfer lockout
set_byte_vram_unlocked(g, addr, value) ==
  set_vram_byte(g, addr, value, g.vram_bank)

\* the 0x8000..=0x9FFF arm of set_byte
set_byte_vram(g, addr, value) ==
  IF g.stat.mode = "PixelTransfer" /\ display_enabled(g.lcdc)
  THEN g
  ELSE set_vram_byte(g, addr, value, g.vram_bank)

\* a sprite-table write arm locked in Transfer only
set_byte_oam_transfer_only(g, addr, value) ==
  IF g.stat.mode = "PixelTransfer" /\ display_enabled(g.lcdc)
  THEN g
  ELSE set_oam_byte(g, addr, value)

\* the 0xFE00..=0xFE9F arm of set_byte
set_byte_oam(g, addr, value) ==
  IF g.stat.mode \in {"OamSearch", "PixelTransfer"} /\ display_enabled(g.lcdc)
  THEN g
  ELSE set_oam_byte(g, addr, value)

\* the write returns; the panic! arm is set_byte_panics
set_byte(g, addr, value) ==
  CASE addr \in VRAM_OFFSET..VRAM_END -> set_byte_vram(g, addr, value)
    [] addr \in OAM_OFFSET..OAM_END -> set_byte_oam(g, addr, value)
    [] addr = 65344 -> set_lcdc(g, value)
    [] addr = 65345 ->
         [g EXCEPT !.stat.lyc_int = BitAnd(value, 64),
                   !.stat.oam_int = BitAnd(value, 32),
                   !.stat.vblank_int = BitAnd(value, 16),
                   !.stat.hblank_int = BitAnd(value, 8)]
    [] addr = 65346 -> [g EXCEPT !.position.scroll_y = value]
    [] addr = 65347 -> [g EXCEPT !.position.scroll_x = value]
    [] addr = 65348 -> g
    [] addr = 65349 -> [g EXCEPT !.position.lyc = value]
    [] addr = 65351 -> [g EXCEPT !.dmgp.bgp = value]
    [] addr = 65352 -> [g EXCEPT !.dmgp.obp0 = value]
    [] addr = 65353 -> [g EXCEPT !.dmgp.obp1 = value]
    [] addr = 65354 -> [g EXCEPT !.position.window_y = value]
    [] addr = 65355 -> [g EXCEPT !.position.window_x = value]
    [] addr = 65359 -> [g EXCEPT !.vram_bank = value % 2]
    [] addr = 65384 ->
         [g EXCEPT !.cgbp.bgp_idx = value % 64,
                   !.cgbp.bgp_auto_incr = (BitAnd(value, 128) # 0)]
    [] addr = 65385 ->
         LET g1 == IF g.stat.mode # "PixelTransfer"
                   THEN [g EXCEPT !.bgp_ram[g.cgbp.bgp_idx] = value]
                   ELSE g
         IN IF g1.cgbp.bgp_auto_incr
            THEN [g1 EXCEPT !.cgbp.bgp_idx = (@ + 1) % 64]
            ELSE g1
    [] addr = 65386 ->
         [g EXCEPT !.cgbp.obp_idx = value % 64,
                   !.cgbp.obp_auto_incr = (BitAnd(value, 128) # 0)]
    [] addr = 65387 ->
         LET g1 == IF g.stat.mode # "PixelTransfer"
                   THEN [g EXCEPT !.obp_ram[g.cgbp.obp_idx] = value]
                   ELSE g
         IN IF g1.cgbp.obp_auto_incr
            THEN [g1 EXCEPT !.cgbp.obp_idx = (@ + 1) % 64]
            ELSE g1
    [] OTHER -> g

set_byte_panics(addr) ==
  ~(\/ addr \in VRAM_OFFSET..VRAM_END
    \/ addr \in OAM_OFFSET..OAM_END
    \/ addr \in 65344..65349
    \/ addr \in 65351..65355
    \/ addr = 65359
    \/ addr \in 65384..65387)

---------------------------------------------------------------------------
(* Gpu::tick.  The while loop is tick_loop; beside the Gpu it carries the  *)
(* observer record `h`, which only watches: it records, per loop           *)
(* iteration, the cycles the handler consumed and the mode and line        *)
(* changes it made.                                                        *)

NoLine ==
  [open |-> FALSE, ly |-> 0, scx |-> 0, search |-> 0, transfer |-> 0,
   hblank |-> 0, pixels |-> 0, discarded |-> 0, borrowed |-> 0]

\* the interrupt and VBlank events seen so far
NoEv ==
  [entered |-> {}, lyc_missed |-> {}, lyc_fired |-> {},
   vb_sets |-> {}, vb_missed |-> FALSE, cleared |-> FALSE,
   vb_open |-> FALSE, vb_len |-> -1, vb_lys |-> <<>>, wraps |-> {},
   xfer_lx |-> {}, xfer_exit_lx |-> {}]

\* the four interrupt-enable bits of the status register, as one byte
stat_enables(stat) == stat.lyc_int + stat.oam_int + stat.vblank_int + stat.hblank_int

\* what one loop iteration (g0 -> g1, the mode having lasted `len` cycles)
\* adds to the events
observe_ev(e, g0, g1, len) ==
  LET m0 == g0.stat.mode
      m1 == g1.stat.mode
      \* the status latch at the call of change_mode
      pre == IF m0 = "HBlank" THEN hblank_line_end(g0).request_lcd_int
             ELSE g0.request_lcd_int
      inc == g1.position.ly # g0.position.ly
      hit == inc /\ g1.position.ly = g1.position.lyc /\ g1.stat.lyc_int # 0
      period == m0 = "VBlank" /\ g1.clock = 0
      wrap == m0 = "VBlank" /\ g0.position.ly = WRAP_LINE - 1 /\ inc
  IN [entered |-> IF m1 # m0
                  THEN e.entered \cup {<<m1, stat_enables(g1.stat), pre,
                                         g1.request_lcd_int>>}
                  ELSE e.entered,
      lyc_missed |-> IF hit /\ ~g1.request_lcd_int
                     THEN e.lyc_missed \cup {g1.position.ly}
                     ELSE e.lyc_missed,
      lyc_fired |-> IF hit /\ ~g0.request_lcd_int /\ g1.request_lcd_int
                    THEN e.lyc_fired \cup {g1.position.ly}
                    ELSE e.lyc_fired,
      vb_sets |-> IF ~g0.request_vblank_int /\ g1.request_vblank_int
                  THEN e.vb_sets \cup {<<m0, m1>>}
                  ELSE e.vb_sets,
      vb_missed |-> e.vb_missed
                    \/ (m0 = "HBlank" /\ m1 = "VBlank" /\ ~g1.request_vblank_int),
      cleared |-> e.cleared
                  \/ (g0.request_vblank_int /\ ~g1.request_vblank_int)
                  \/ (g0.request_lcd_int /\ ~g1.request_lcd_int),
      vb_open |-> IF m1 # m0 THEN m0 = "HBlank" /\ m1 = "VBlank" ELSE e.vb_open,
      vb_len |-> IF m0 = "VBlank" /\ m1 # m0 /\ e.vb_open THEN len ELSE e.vb_len,
      vb_lys |-> IF m0 = "HBlank" /\ m1 = "VBlank" THEN <<>>
                 ELSE IF e.vb_open /\ period
                 THEN Append(e.vb_lys, <<g1.position.ly, len>>)
                 ELSE e.vb_lys,
      wraps |-> IF wrap
                THEN e.wraps \cup {<<g1.position.lyc, g0.stat.coincident,
                                     g1.stat.coincident, g1.stat.lyc_int # 0,
                                     g0.request_lcd_int, g1.request_lcd_int,
                                     g1.stat.mode, g1.position.ly>>}
                ELSE e.wraps,
      xfer_lx |-> IF m1 = "PixelTransfer" /\ m0 # m1
                  THEN e.xfer_lx \cup {g1.position.lx}
                  ELSE e.xfer_lx,
      xfer_exit_lx |-> IF m0 = "PixelTransfer" /\ m0 # m1
                       THEN e.xfer_exit_lx \cup {g1.position.lx}
                       ELSE e.xfer_exit_lx]

NoObs ==
  [mode_len |-> 0, line |-> NoLine, done |-> NoLine, first |-> NoLine,
   frame_open |-> FALSE, frame_cycles |-> 0, frame_len |-> -1,
   ly_steps |-> {}, mode_ly |-> {}, entries |-> {}, ev |-> NoEv]

\* the observer at power-on: a Gpu that starts in Search starts a line
InitObs(g) ==
  [NoObs EXCEPT !.line =
     IF g.stat.mode = "OamSearch"
     THEN [NoLine EXCEPT !.open = TRUE, !.ly = g.position.ly,
                         !.scx = g.position.scroll_x % 8]
     ELSE NoLine]

\* what one loop iteration (g0 -> g1, consuming `used` cycles) adds to h
observe(h, g0, g1, used) ==
  LET m0 == g0.stat.mode
      m1 == g1.stat.mode
      len == h.mode_len + used
      pix == g1.position.lx - g0.position.lx
      dis == g0.bg_fifo.scx - g1.bg_fifo.scx
      ln0 == [h.line EXCEPT !.pixels = @ + pix, !.discarded = @ + dis]
      ln1 == CASE m0 = m1 -> ln0
               [] m0 = "OamSearch" -> [ln0 EXCEPT !.search = len]
               [] m0 = "PixelTransfer" -> [ln0 EXCEPT !.transfer = len]
               [] m0 = "HBlank" -> [ln0 EXCEPT !.hblank = len,
                                               !.borrowed = g0.borrowed_cycles]
               [] OTHER -> ln0
      closes == m0 = "HBlank" /\ m1 # m0 /\ ln1.open
      opens == m1 = "OamSearch" /\ m1 # m0
      newframe == opens /\ g1.position.ly = 0
  IN [mode_len |-> IF m0 = m1 THEN len ELSE 0,
      line |-> IF opens
               THEN [NoLine EXCEPT !.open = TRUE, !.ly = g1.position.ly,
                                   !.scx = g1.position.scroll_x % 8]
               ELSE IF m1 # m0 /\ m0 = "HBlank" THEN NoLine ELSE ln1,
      done |-> IF closes THEN ln1 ELSE h.done,
      first |-> IF closes /\ ~h.first.open THEN ln1 ELSE h.first,
      frame_open |-> h.frame_open \/ newframe,
      frame_cycles |-> IF newframe THEN 0
                       ELSE IF h.frame_open THEN h.frame_cycles + used ELSE 0,
      frame_len |-> IF newframe /\ h.frame_open
                    THEN h.frame_cycles + used ELSE h.frame_len,
      ly_steps |-> IF g0.position.ly # g1.position.ly
                      /\ <<g0.position.ly, g1.position.ly>> \notin h.ly_steps
                   THEN h.ly_steps \cup {<<g0.position.ly, g1.position.ly>>}
                   ELSE h.ly_steps,
      mode_ly |-> IF <<m1, g1.position.ly>> \notin h.mode_ly
                  THEN h.mode_ly \cup {<<m1, g1.position.ly>>}
                  ELSE h.mode_ly,
      entries |-> IF m1 # m0 /\ <<m0, m1>> \notin h.entries
                  THEN h.entries \cup {<<m0, m1>>}
                  ELSE h.entries,
      ev |-> observe_ev(h.ev, g0, g1, len)]

\* the body of the while loop of Gpu::tick, on [g, h, cycles]
tick_step(s) ==
  IF s.cycles > 0
  THEN LET r == mode_tick(s.g, s.cycles)
       IN [g |-> r.g, h |-> observe(s.h, s.g, r.g, s.cycles - r.cycles),
           cycles |-> r.cycles]
  ELSE s

\* up to 2^k iterations of the loop
RECURSIVE tick_run(_, _)
tick_run(s, k) ==
  IF ~(s.cycles > 0)
  THEN s
  ELSE IF k = 0 THEN tick_step(s) ELSE tick_run(tick_run(s, k - 1), k - 1)

\* while cycles > 0 { cycles = <handler of stat.mode>(cycles) }
RECURSIVE tick_loop(_, _)
tick_loop(s, k) ==
  IF s.cycles > 0 THEN tick_loop(tick_run(s, k), k + 1) ELSE s

\* a tick that runs whether or not the display is enabled
tick_obs_unguarded(g, h, cycles) ==
  LET r == tick_loop([g |-> g, h |-> h, cycles |-> cycles], 0)
  IN [g |-> r.g, h |-> r.h]

tick_obs(g, h, cycles) ==
  IF g.lcdc.display_enable = 0
  THEN [g |-> g, h |-> h]
  ELSE LET r == tick_loop([g |-> g, h |-> h, cycles |-> cycles], 0)
       IN [g |-> r.g, h |-> r.h]

tick(g, cycles) == tick_obs(g, NoObs, cycles).g

---------------------------------------------------------------------------
(* Specifications.  Power-on state: Gpu::new; the register-bank defaults   *)
(* (stat.mode, lcdc.display_enable) are taken from every value they can    *)
(* hold.                                                                   *)

NoOp == [op |-> "new", addr |-> 0, value |-> 0, ret |-> 0,
         mode |-> "HBlank", de |-> 0, dma |-> FALSE, ly |-> 0]

Op(name, addr, value, ret) ==
  [op |-> name, addr |-> addr, value |-> value, ret |-> ret,
   mode |-> gpu.stat.mode, de |-> gpu.lcdc.display_enable,
   dma |-> gpu.oam_dma_active, ly |-> gpu.position.ly]

Init ==
  /\ \E mode \in Modes, de \in {0, 128} :
       gpu = Gpu_new("Dmg", LcdControl_default(de), LcdStatus_default(mode))
  /\ obs = InitObs(gpu)
  /\ last = NoOp
  /\ steps = 0

\* power-on followed by the writes that enable the display and set scroll_x
InitFrame ==
  /\ \E mode \in Modes, scx \in ScrollValues :
       gpu = [Gpu_new("Dmg", LcdControl_default(128), LcdStatus_default(mode))
                EXCEPT !.position.scroll_x = scx]
  /\ obs = InitObs(gpu)
  /\ last = NoOp
  /\ steps = 0

Tick(n) ==
  LET r == tick_obs(gpu, obs, n)
  IN /\ gpu' = r.g
     /\ obs' = r.h
     /\ last' = Op("tick", 0, n, 0)
     /\ steps' = steps + 1

TickFrame ==
  /\ steps < MaxTicks
  /\ \E n \in FrameBudgets : Tick(n)

TickBus ==
  /\ steps < MaxSteps
  /\ \E n \in BusBudgets : Tick(n)

WriteByte ==
  /\ steps < MaxSteps
  /\ \E addr \in WriteAddrs, value \in Values :
       /\ gpu' = set_byte(gpu, addr, value)
       /\ obs' = NoObs
       /\ last' = Op("write", addr, value, 0)
       /\ steps' = steps + 1

ReadByte ==
  /\ steps < MaxSteps
  /\ \E addr \in ReadAddrs :
       /\ last' = Op("read", addr, 0, get_byte(gpu, addr))
       /\ steps' = steps + 1
       /\ UNCHANGED <<gpu, obs>>

\* the DMA sequencer, outside this core, raises and drops oam_dma_active
SetDma ==
  /\ steps < MaxSteps
  /\ gpu' = [gpu EXCEPT !.oam_dma_active = ~@]
  /\ last' = Op("dma", 0, 0, 0)
  /\ steps' = steps + 1
  /\ UNCHANGED obs

Next == TickBus \/ WriteByte \/ ReadByte \/ SetDma

Spec == Init /\ [][Next]_vars

NextFrame == TickFrame

SpecFrame == InitFrame /\ [][NextFrame]_vars

\* The pipeline view: before the display is enabled the first tilemap entry
\* and the two plane bytes of row 0 of tile 0 are written, the control write
\* selects the tile-data addressing mode, and the Gpu is then ticked one cycle
\* at a time.
InitPipe ==
  /\ \E mode \in {"OamSearch", "PixelTransfer"}, idx \in TileIndexes,
        sel \in {0, 16}, dma \in BOOLEAN, planes \in PlanePairs :
       LET g0 == Gpu_new("Dmg", LcdControl_default(0), LcdStatus_default(mode))
           g1 == set_byte(g0, 38912, idx)
           g2 == set_byte(g1, 32768, planes[1])
           g3 == set_byte(g2, 32769, planes[2])
           g4 == set_byte(g3, 65344, 128 + sel)
       IN gpu = [g4 EXCEPT !.oam_dma_active = dma]
  /\ obs = InitObs(gpu)
  /\ last = NoOp
  /\ steps = 0

Cycle ==
  /\ steps < MaxCycles
  /\ Tick(1)

NextPipe == Cycle

SpecPipe == InitPipe /\ [][NextPipe]_vars

\* The interrupt view: the display is on, the status register's enable bits
\* and the compare target are written between ticks, and the interrupt
\* controller, outside this core, clears the latches it has served.
InitIrq ==
  /\ \E mode \in Modes :
       gpu = Gpu_new("Dmg", LcdControl_default(128), LcdStatus_default(mode))
  /\ obs = InitObs(gpu)
  /\ last = NoOp
  /\ steps = 0

TickIrq ==
  /\ steps < MaxOps
  /\ \E n \in IrqBudgets : Tick(n)

WriteStat ==
  /\ steps < MaxOps
  /\ \E value \in StatValues :
       /\ gpu' = set_byte(gpu, 65345, value)
       /\ last' = Op("write", 65345, value, 0)
       /\ steps' = steps + 1
       /\ UNCHANGED obs

WriteLyc ==
  /\ steps < MaxOps
  /\ \E value \in LycValues :
       /\ gpu' = set_byte(gpu, 65349, value)
       /\ last' = Op("write", 65349, value, 0)
       /\ steps' = steps + 1
       /\ UNCHANGED obs

AckIrq ==
  /\ steps < MaxOps
  /\ gpu.request_vblank_int \/ gpu.request_lcd_int
  /\ gpu' = [gpu EXCEPT !.request_vblank_int = FALSE, !.request_lcd_int = FALSE]
  /\ last' = Op("ack", 0, 0, 0)
  /\ steps' = steps + 1
  /\ UNCHANGED obs

NextIrq == TickIrq \/ WriteStat \/ WriteLyc \/ AckIrq

SpecIrq == InitIrq /\ [][NextIrq]_vars

---------------------------------------------------------------------------
(* Frame and line timing. *)

\* C1: with the display enabled and the scroll registers at zero, the cycles
\* consumed between two successive entries into Search at line 0 are
\* 154 x 456 = 70224.
C1_FrameTakes70224 ==
  (/\ display_enabled(gpu.lcdc)
   /\ gpu.position.scroll_x = 0 /\ gpu.position.scroll_y = 0
   /\ obs.frame_len # -1)
  => obs.frame_len = (WRAP_LINE + 1) * VBLANK_LINE_CYCLES

\* C2: every rendered line, once complete, spent exactly 80 cycles in Search
\* and 204 - borrowed_cycles in HBlank, with borrowed_cycles = scroll_x mod 8,
\* and 456 cycles in Search + Transfer + HBlank together.
C2_LineTiming ==
  obs.done.open =>
    /\ obs.done.ly \in 0..LAST_VISIBLE_LINE
    /\ obs.done.search = SEARCH_CYCLES
    /\ obs.done.hblank = HBLANK_CYCLES - obs.done.borrowed
    /\ obs.done.borrowed = obs.done.scx
    /\ obs.done.search + obs.done.transfer + obs.done.hblank = VBLANK_LINE_CYCLES

\* C3: with scroll_x = 3, scroll_y = 0 and video memory zero-filled, the first
\* full line processed wrote 160 pixels after discarding 3, borrowed 3 cycles
\* and had an HBlank of 201 cycles.
C3_Scroll3Line ==
  (/\ obs.first.open
   /\ gpu.position.scroll_x = 3 /\ gpu.position.scroll_y = 0
   /\ \A a \in VramAddrs : gpu.vram0[a] = 0 /\ gpu.vram1[a] = 0)
  => /\ obs.first.pixels = SCREEN_WIDTH
     /\ obs.first.discarded = 3
     /\ obs.first.borrowed = 3
     /\ obs.first.hblank = HBLANK_CYCLES - 3

\* C4: with the display enabled, tick consumes its whole budget and splitting
\* a budget changes nothing: tick(a) then tick(b) reaches the state of
\* tick(a + b), for all a, b >= 0.
C4_TickSplits ==
  display_enabled(gpu.lcdc) =>
    \A a \in SplitBudgets, b \in SplitBudgets :
      tick(tick(gpu, a), b) = tick(gpu, a + b)

\* a tick that crossed a mode boundary was taken with the display enabled
C4_Witness ==
  /\ last.op = "tick" /\ last.de # 0
  /\ last.mode = "OamSearch" /\ gpu.stat.mode = "HBlank"
  /\ gpu.position.lx = SCREEN_WIDTH /\ gpu.clock > 0

\* the line-counter steps of one whole frame, as the code takes them
FrameSteps == {<<i, i + 1>> : i \in 0..(WRAP_LINE - 2)} \cup {<<WRAP_LINE - 1, 0>>}

\* C6 (as claimed): the line counter read at 0xFF44 steps 0, 1, ..., 153 by +1
\* and wraps from 153 to 0, and the mode is VBlank exactly while it is in
\* 144..153.
C6_Original ==
  /\ \A st \in obs.ly_steps : st[2] = st[1] + 1 \/ st = <<WRAP_LINE, 0>>
  /\ get_byte(gpu, 65348) <= WRAP_LINE
  /\ obs.frame_open =>
       (gpu.stat.mode = "VBlank"
          <=> get_byte(gpu, 65348) \in (LAST_VISIBLE_LINE + 1)..WRAP_LINE)

\* C6 (amended): the line counter read at 0xFF44 steps 0, 1, ..., 152 by +1 and
\* then goes from 152 to 0, never exceeding 152; the mode is VBlank whenever it
\* is in 144..152, and VBlank occurs otherwise only with the counter at 0.
C6_LineCounter ==
  /\ obs.ly_steps \subseteq FrameSteps
  /\ get_byte(gpu, 65348) <= WRAP_LINE - 1
  /\ \A p \in obs.mode_ly \cup {<<gpu.stat.mode, gpu.position.ly>>} :
       /\ p[2] \in (LAST_VISIBLE_LINE + 1)..(WRAP_LINE - 1) => p[1] = "VBlank"
       /\ p[1] = "VBlank" => p[2] \in {0} \cup (LAST_VISIBLE_LINE + 1)..(WRAP_LINE - 1)

\* a whole frame of line-counter steps was taken, the wrap included
C6_Witness ==
  /\ obs.ly_steps = FrameSteps
  /\ <<"VBlank", 0>> \in obs.mode_ly
  /\ obs.frame_open

---------------------------------------------------------------------------
(* Display-off ticks and the bus arbiter's lockout windows. *)

\* the bytes the bank selected by vram_bank holds at addr
StoredVram(g, addr) == IF g.vram_bank = 0 THEN g.vram0[addr] ELSE g.vram1[addr]

\* every byte of the framebuffer Vec equals v
LcdAll(lcd, v) ==
  /\ lcd.fill = v
  /\ \A p \in DOMAIN lcd.px : \A k \in 1..SCREEN_DEPTH : lcd.px[p][k] = v

\* C5: with the display-enable bit clear, tick(n) changes nothing of the Gpu:
\* mode, line counter, pixel cursor, clock, fetcher, FIFO, framebuffer,
\* memories and both interrupt latches.
C5_DisabledTickNoOp ==
  ~display_enabled(gpu.lcdc) =>
    \A n \in FrameBudgets \cup BusBudgets :
      LET r == tick_obs(gpu, obs, n)
      IN r.g = gpu /\ r.h = obs

\* a tick was taken after a control write had turned the display off
C5_Witness ==
  /\ last.op = "tick" /\ last.de = 0 /\ last.value > 0
  /\ gpu.stat.mode = "HBlank" /\ gpu.clock = 0 /\ LcdAll(gpu.lcd, 255)

\* C7: a video-memory write in Transfer with the display enabled leaves both
\* banks unchanged; the same write in HBlank stores the value in the selected
\* bank, and a read of that address in HBlank then returns it.
C7_VramWriteLockout ==
  \A addr \in VramAddrs, value \in Byte :
    LET g2 == set_byte(gpu, addr, value)
    IN /\ (gpu.stat.mode = "PixelTransfer" /\ display_enabled(gpu.lcdc))
            => (g2.vram0 = gpu.vram0 /\ g2.vram1 = gpu.vram1)
       /\ gpu.stat.mode = "HBlank"
            => /\ g2.stat.mode = "HBlank"
               /\ StoredVram(g2, addr) = value
               /\ get_byte(g2, addr) = value
               /\ gpu.vram_bank = 0 => g2.vram1 = gpu.vram1
               /\ gpu.vram_bank # 0 => g2.vram0 = gpu.vram0

\* a non-zero video-memory write was issued in Transfer with the display
\* enabled, and video memory still holds zero there
C7_Witness ==
  /\ last.op = "write" /\ last.addr \in VramAddrs /\ last.value # 0
  /\ last.mode = "PixelTransfer" /\ last.de # 0
  /\ gpu.vram0[last.addr] = 0 /\ gpu.vram1[last.addr] = 0

\* C8: a video-memory read in Transfer returns 0x00 with the DMA-active flag
\* clear and the stored byte of the selected bank with the flag set; in every
\* other mode it returns the stored byte whatever the flag.
C8_VramReadLockout ==
  \A addr \in VramAddrs :
    get_byte(gpu, addr) =
      IF gpu.stat.mode = "PixelTransfer" /\ ~gpu.oam_dma_active
      THEN 0
      ELSE StoredVram(gpu, addr)

\* a video-memory read in Transfer, DMA flag clear, returned 0x00 although the
\* selected bank holds a non-zero byte there
C8_Witness ==
  /\ last.op = "read" /\ last.addr \in VramAddrs
  /\ last.mode = "PixelTransfer" /\ ~last.dma
  /\ last.ret = 0 /\ StoredVram(gpu, last.addr) # 0

\* C9: a sprite-table write in Search or Transfer with the display enabled
\* leaves the table unchanged and otherwise stores the value; a sprite-table
\* read in Search or Transfer returns 0x00 unless the DMA-active flag is set,
\* and otherwise the stored byte.
C9_OamLockout ==
  \A addr \in OamAddrs :
    /\ \A value \in Byte :
         LET g2 == set_byte(gpu, addr, value)
         IN IF gpu.stat.mode \in {"OamSearch", "PixelTransfer"}
               /\ display_enabled(gpu.lcdc)
            THEN g2.oam = gpu.oam
            ELSE g2.oam[addr] = value
    /\ get_byte(gpu, addr) =
         IF gpu.stat.mode \in {"OamSearch", "PixelTransfer"} /\ ~gpu.oam_dma_active
         THEN 0
         ELSE gpu.oam[addr]

\* a non-zero sprite-table write was issued in Search with the display
\* enabled, and the table still holds zero there
C9_Witness ==
  /\ last.op = "write" /\ last.addr \in OamAddrs /\ last.value # 0
  /\ last.mode = "OamSearch" /\ last.de # 0
  /\ gpu.oam[last.addr] = 0

\* C10: a control write that turns display-enable from 1 to 0 leaves the line
\* counter at 0, the mode HBlank, the clock at 0 and every framebuffer byte at
\* 255; any other control write changes none of the four.
C10_DisplayOff ==
  \A value \in Byte :
    LET g2 == set_byte(gpu, 65344, value)
    IN IF display_enabled(gpu.lcdc) /\ BitAnd(value, 128) = 0
       THEN /\ g2.position.ly = 0
            /\ g2.stat.mode = "HBlank"
            /\ g2.clock = 0
            /\ LcdAll(g2.lcd, 255)
            /\ ~display_enabled(g2.lcdc)
       ELSE /\ g2.position.ly = gpu.position.ly
            /\ g2.stat.mode = gpu.stat.mode
            /\ g2.clock = gpu.clock
            /\ g2.lcd = gpu.lcd

\* the display was turned off by a control write issued at a line other than
\* 0 and in a mode other than HBlank
C10_Witness ==
  /\ last.op = "write" /\ last.addr = 65344 /\ last.de # 0
  /\ last.ly # 0 /\ last.mode # "HBlank"
  /\ ~display_enabled(gpu.lcdc)
  /\ gpu.position.ly = 0 /\ gpu.stat.mode = "HBlank" /\ gpu.clock = 0
  /\ LcdAll(gpu.lcd, 255)

---------------------------------------------------------------------------
(* Address dispatch. *)

\* addresses at and around the edges of every window of the bus surface
ProbeAddrs ==
  {32767, 32768, 40959, 40960, 65023, 65024, 65183, 65184}
    \cup (65343..65360) \cup (65383..65388)

\* the recognised ranges: video memory, the sprite table, and the control,
\* status, scroll, line, compare, DMA-trigger, palette, window, bank and
\* enhanced-palette registers
Recognised(addr) ==
  \/ addr \in VRAM_OFFSET..VRAM_END
  \/ addr \in OAM_OFFSET..OAM_END
  \/ addr \in 65344..65355
  \/ addr = 65359
  \/ addr \in 65384..65387

\* C15: read_byte and write_byte abort for an address outside the recognised
\* ranges, and for every address inside them neither aborts, whatever the
\* mode and the colour scheme.
C15_AbortOnlyOutOfRange ==
  \A addr \in ProbeAddrs :
    IF Recognised(addr)
    THEN ~set_byte_panics(addr) /\ ~get_byte_panics(gpu, addr)
    ELSE set_byte_panics(addr) /\ get_byte_panics(gpu, addr)

---------------------------------------------------------------------------
(* Interrupt requests. *)

\* the enable bit of `mode` in the enable byte `en` (Transfer has none)
ModeEnabled(mode, en) ==
  CASE mode = "OamSearch" -> BitAnd(en, 32) # 0
    [] mode = "VBlank" -> BitAnd(en, 16) # 0
    [] mode = "HBlank" -> BitAnd(en, 8) # 0
    [] OTHER -> FALSE

\* C11: a mode entry made by the scheduler sets the status-interrupt latch if
\* and only if the mode entered is Search, HBlank or VBlank and that mode's
\* enable bit is set at that moment: with the latch clear at the entry, it is
\* set afterwards exactly in that case, and an entry into Transfer never sets
\* it, whatever the enable bits are.
C11_ModeEntryInterrupt ==
  /\ \A e \in obs.ev.entered : e[4] = (e[3] \/ ModeEnabled(e[1], e[2]))
  /\ \A mode \in Modes :
       change_mode([gpu EXCEPT !.request_lcd_int = FALSE], mode).request_lcd_int
         = ModeEnabled(mode, stat_enables(gpu.stat))

\* with only the Search enable bit set and the latch clear, Transfer and HBlank
\* were entered and left the latch clear, and Search was entered and set it
C11_Witness ==
  /\ <<"PixelTransfer", 32, FALSE, FALSE>> \in obs.ev.entered
  /\ <<"HBlank", 32, FALSE, FALSE>> \in obs.ev.entered
  /\ <<"OamSearch", 32, FALSE, TRUE>> \in obs.ev.entered
  /\ gpu.request_lcd_int

\* C12: the coincidence is evaluated at every line-counter increment, in HBlank
\* completion and in every VBlank period: whenever an increment makes the line
\* counter equal to the compare target with the coincidence-enable bit set, the
\* status-interrupt latch is set after that increment.
C12_CoincidenceEveryIncrement ==
  obs.ev.lyc_missed = {}

\* the calls read_byte and write_byte accept in every mode
BusAddrs == VramAddrs \cup OamAddrs \cup (65344..65349) \cup (65351..65355) \cup {65359}

\* C13: the vertical-blank latch is set at every HBlank-to-VBlank transition
\* and by no other step of a tick or write_byte, and no tick or write_byte
\* turns either latch from true to false (read_byte takes the Gpu by shared
\* reference and changes nothing).
C13_VblankLatch ==
  /\ ~obs.ev.vb_missed
  /\ obs.ev.vb_sets \subseteq {<<"HBlank", "VBlank">>}
  /\ ~obs.ev.cleared
  /\ \A addr \in BusAddrs, value \in Values \cup StatValues :
       LET g2 == set_byte(gpu, addr, value)
       IN /\ g2.request_vblank_int = gpu.request_vblank_int
          /\ gpu.request_lcd_int => g2.request_lcd_int

\* a tick crossed from HBlank into VBlank with the vertical-blank latch clear
\* and set it
C13_Witness ==
  /\ last.op = "tick" /\ gpu.request_vblank_int
  /\ <<"HBlank", "VBlank">> \in obs.ev.vb_sets
  /\ obs.ev.vb_lys # <<>>

\* the line counter after each of the ten VBlank periods, with the cycles
\* spent in VBlank by then
VBlankPeriods ==
  [i \in 1..10 |-> <<IF i <= 8 THEN LAST_VISIBLE_LINE + 1 + i ELSE 0,
                     i * VBLANK_LINE_CYCLES>>]

\* C16: VBlank lasts ten periods of 456 cycles from its entry at line 144 to
\* the transition to Search; the line counter goes up by one a period; the
\* period that would make it 153 leaves it at 0, makes the coincidence check
\* against 0 and not 153, and stays in VBlank; the period after that leaves it
\* at 0 and enters Search, and the line register never reads 153.
C16_VBlankPeriods ==
  /\ obs.ev.vb_len \in {-1, 10 * VBLANK_LINE_CYCLES}
  /\ Len(obs.ev.vb_lys) <= 10
  /\ \A i \in 1..Len(obs.ev.vb_lys) : obs.ev.vb_lys[i] = VBlankPeriods[i]
  /\ (obs.ev.vb_len # -1 /\ ~obs.ev.vb_open) => obs.ev.vb_lys = VBlankPeriods
  /\ (obs.ev.vb_open /\ Len(obs.ev.vb_lys) < 10) => gpu.stat.mode = "VBlank"
  /\ \A w \in obs.ev.wraps :
       /\ w[7] = "VBlank" /\ w[8] = 0
       /\ IF w[1] = 0
          THEN w[3] = 4 /\ (w[4] => w[6])
          ELSE w[3] = w[2] /\ w[6] = w[5]
  /\ get_byte(gpu, 65348) # WRAP_LINE
  /\ gpu.stat.mode = "VBlank" => get_byte(gpu, 65348) # 1

\* a whole VBlank was seen, from its entry to the transition to Search, and
\* its wrap period set the status latch for compare target 0
C16_Witness ==
  /\ obs.ev.vb_len = 10 * VBLANK_LINE_CYCLES /\ ~obs.ev.vb_open
  /\ obs.ev.vb_lys = VBlankPeriods
  /\ \E w \in obs.ev.wraps : w[1] = 0 /\ w[4] /\ ~w[5] /\ w[6]

\* C20: in every state reached by ticks and register writes, the coincidence
\* bit read from 0xFF41 is set if and only if the line counter equals the
\* compare target, and a write to 0xFF41 changes only the four interrupt-enable
\* bits, never the mode or coincidence bits.  (The first half is asked of the
\* states in which the line counter has moved, where the coincidence has been
\* evaluated at least once.)
C20_CoincidenceDerived ==
  /\ obs.ly_steps # {}
       => ((BitAnd(get_byte(gpu, 65345), 4) # 0)
             <=> (get_byte(gpu, 65348) = get_byte(gpu, 65349)))
  /\ \A value \in Byte :
       LET g2 == set_byte(gpu, 65345, value)
       IN /\ get_byte(g2, 65345) % 8 = get_byte(gpu, 65345) % 8
          /\ g2 = [gpu EXCEPT !.stat.lyc_int = g2.stat.lyc_int,
                               !.stat.oam_int = g2.stat.oam_int,
                               !.stat.vblank_int = g2.stat.vblank_int,
                               !.stat.hblank_int = g2.stat.hblank_int]

---------------------------------------------------------------------------
(* The pixel pipeline. *)

\* the fetcher state that follows `state` when the FIFO holds `occupancy`
\* entries at the fetcher step
NextFetcherState(state, occupancy) ==
  CASE state = "Sleep0" -> "ReadTileNumber"
    [] state = "ReadTileNumber" -> "Sleep1"
    [] state = "Sleep1" -> "ReadTileDataLow"
    [] state = "ReadTileDataLow" -> "Sleep2"
    [] state = "Sleep2" -> "ReadTileDataHigh"
    [] state = "ReadTileDataHigh" -> "Push0"
    [] state = "Push0" -> "Push1"
    [] state = "Push1" -> IF occupancy <= 8 THEN "Sleep0" ELSE "Push1"

\* the Gpu with its fetcher in the commit step and k entries in the FIFO
AtCommit(g, k) ==
  [g EXCEPT !.fetcher.state = "Push1", !.bg_fifo.q = [i \in 1..k |-> 0]]

\* C18: every Transfer cycle runs one fetcher step and then one FIFO step.  The
\* fetcher moves one state a step in the order idle, read-tile-number, idle,
\* read-low-plane, idle, read-high-plane, push (column + 1 mod 32), push
\* (commit), idle; the commit pushes 8 pixels and returns to idle only with a
\* FIFO occupancy of at most 8 at that step, and the FIFO step of the same cycle
\* then sees the pushed pixels; with a higher occupancy the fetcher step
\* changes nothing; no state but the commit step lasts more than one step.
C18_FetcherOrder ==
  [][(gpu.stat.mode = "PixelTransfer" /\ gpu.position.lx < SCREEN_WIDTH
        /\ display_enabled(gpu.lcdc))
     => /\ gpu'.fetcher.state =
             NextFetcherState(gpu.fetcher.state, Len(gpu.bg_fifo.q))
        /\ gpu'.fetcher.x = IF gpu.fetcher.state = "Push0"
                            THEN (gpu.fetcher.x + 1) % 32
                            ELSE gpu.fetcher.x
        /\ (gpu.fetcher.state = "Push1" /\ Len(gpu.bg_fifo.q) <= 8)
             => /\ Len(gpu'.bg_fifo.q) = Len(gpu.bg_fifo.q) + 8 - 1
                /\ gpu'.position.lx + gpu'.borrowed_cycles
                     = gpu.position.lx + gpu.borrowed_cycles + 1
        /\ gpu.fetcher.state # "Push1"
             => Len(gpu'.bg_fifo.q) \in {Len(gpu.bg_fifo.q), Len(gpu.bg_fifo.q) - 1}
        /\ (gpu'.fetcher.state = gpu.fetcher.state) => gpu.fetcher.state = "Push1"
        /\ \A k \in 0..16 :
             LET g == AtCommit(gpu, k)
                 g1 == fetcher_tick(g)
             IN IF k <= 8
                THEN g1.fetcher.state = "Sleep0" /\ Len(g1.bg_fifo.q) = k + 8
                ELSE g1 = g
    ]_vars

\* the first commit: the fetcher pushed 8 pixels into the empty FIFO and is
\* idle again, and the FIFO step of the same cycle has output the first pixel
C18_Witness ==
  /\ last.op = "tick" /\ gpu.stat.mode = "PixelTransfer"
  /\ gpu.fetcher.state = "Sleep0" /\ gpu.fetcher.x = 1
  /\ Len(gpu.bg_fifo.q) = 7 /\ gpu.position.lx = 1

\* the FIFO occupancy at the start of the FIFO step of the cycle taken from g:
\* the fetcher step has run, and has pushed 8 entries if it committed
OccupancyAtFifoStep(g) ==
  IF g.fetcher.state = "Push1" /\ Len(g.bg_fifo.q) <= 8
  THEN Len(g.bg_fifo.q) + 8
  ELSE Len(g.bg_fifo.q)

\* C19: the FIFO step is a no-op unless the occupancy exceeds 8: with 8 entries
\* or fewer at the start of the FIFO step nothing is popped and the discard
\* counter, the borrowed cycles, the pixel cursor and the framebuffer are
\* unchanged; with more than 8, exactly one pixel is popped.
C19_FifoThreshold ==
  [][(gpu.stat.mode = "PixelTransfer" /\ gpu.position.lx < SCREEN_WIDTH
        /\ display_enabled(gpu.lcdc))
     => IF OccupancyAtFifoStep(gpu) <= 8
        THEN /\ Len(gpu'.bg_fifo.q) = OccupancyAtFifoStep(gpu)
             /\ gpu'.bg_fifo.scx = gpu.bg_fifo.scx
             /\ gpu'.borrowed_cycles = gpu.borrowed_cycles
             /\ gpu'.position.lx = gpu.position.lx
             /\ gpu'.lcd = gpu.lcd
        ELSE Len(gpu'.bg_fifo.q) = OccupancyAtFifoStep(gpu) - 1
    ]_vars

\* bit k (7 = most significant) of a byte
PlaneBit(byte, k) == (byte \div (2 ^ k)) % 2

\* the eight colour indices of a low and a high plane byte, leftmost pixel
\* (bit 7) first
ColourIndices(low, high) ==
  <<PlaneBit(low, 7) + 2 * PlaneBit(high, 7), PlaneBit(low, 6) + 2 * PlaneBit(high, 6),
    PlaneBit(low, 5) + 2 * PlaneBit(high, 5), PlaneBit(low, 4) + 2 * PlaneBit(high, 4),
    PlaneBit(low, 3) + 2 * PlaneBit(high, 3), PlaneBit(low, 2) + 2 * PlaneBit(high, 2),
    PlaneBit(low, 1) + 2 * PlaneBit(high, 1), PlaneBit(low, 0) + 2 * PlaneBit(high, 0)>>

\* at most 16 entries, each a colour index in 0..3
FifoWellFormed(q) == Len(q) <= 16 /\ \A i \in 1..Len(q) : q[i] \in 0..3

\* C21: the pixel FIFO holds at most 16 entries, each a 2-bit colour index in
\* 0..3; a commit appends the eight indices formed from one low-plane and one
\* high-plane bit, most significant bit first; and the FIFO is never popped
\* while empty: a cycle that pops finds at least one entry at its FIFO step.
C21_FifoContents ==
  [][/\ FifoWellFormed(gpu.bg_fifo.q)
     /\ FifoWellFormed(gpu'.bg_fifo.q)
     /\ (gpu.stat.mode = "PixelTransfer" /\ gpu.position.lx < SCREEN_WIDTH
           /\ display_enabled(gpu.lcdc))
          => /\ (gpu.fetcher.state = "Push1" /\ Len(gpu.bg_fifo.q) <= 8)
                  => gpu'.bg_fifo.q =
                       Tail(gpu.bg_fifo.q
                              \o ColourIndices(gpu.fetcher.low, gpu.fetcher.high))
             /\ Len(gpu'.bg_fifo.q) < OccupancyAtFifoStep(gpu)
                  => /\ OccupancyAtFifoStep(gpu) >= 1
                     /\ Len(gpu'.bg_fifo.q) = OccupancyAtFifoStep(gpu) - 1
    ]_vars

\* the second commit pushed the indices of plane bytes 0xB2 and 0x1D behind the
\* six entries left of the first tile
C21_Witness ==
  /\ last.op = "tick" /\ gpu.fetcher.state = "Sleep0"
  /\ gpu.fetcher.low = 178 /\ gpu.fetcher.high = 29
  /\ gpu.bg_fifo.q = <<0, 0, 0, 0, 0, 0, 1, 0, 1, 3, 2, 2, 1, 2>>

\* the tilemap address of the fetcher's tile-number read
TileNumberAddr(g) ==
  bg_tilemap(g.lcdc)
    + (wrapping_add(g.position.ly, g.position.scroll_y) \div 8) * 32
    + (((g.position.scroll_x \div 8) + g.fetcher.x) % 32)

\* the tile-data address of the fetcher's low-plane read (the high plane is
\* the next byte)
TileRowAddr(g) ==
  tiledata_addr(g.lcdc.bg_tiledata_sel, g.fetcher.tile_num)
    + (wrapping_add(g.position.ly, g.position.scroll_y) % 8) * 2

\* C22: the fetcher's tile-number, low-plane and high-plane reads return the
\* bytes stored in video memory at the computed tilemap and tile-data
\* addresses, whether or not the DMA-active flag is set: the Transfer-mode read
\* lockout does not blank the fetcher's own reads.
C22_FetcherReadsVram ==
  [][(gpu.stat.mode = "PixelTransfer" /\ gpu.position.lx < SCREEN_WIDTH
        /\ display_enabled(gpu.lcdc))
     => /\ gpu.fetcher.state = "ReadTileNumber"
             => gpu'.fetcher.tile_num =
                  get_vram_byte(gpu, TileNumberAddr(gpu), gpu.vram_bank)
        /\ gpu.fetcher.state = "ReadTileDataLow"
             => gpu'.fetcher.low =
                  get_vram_byte(gpu, TileRowAddr(gpu), gpu.vram_bank)
        /\ gpu.fetcher.state = "ReadTileDataHigh"
             => gpu'.fetcher.high =
                  get_vram_byte(gpu, TileRowAddr(gpu) + 1, gpu.vram_bank)
    ]_vars

\* C17: at every entry into Transfer the pixel cursor is 0 and Transfer ends
\* exactly when the cursor reaches 160, so every visible line, once complete,
\* had 160 pixels written to its row, and the cursor never exceeds 160.
C17_CursorPerLine ==
  /\ obs.ev.xfer_lx \subseteq {0}
  /\ obs.ev.xfer_exit_lx \subseteq {SCREEN_WIDTH}
  /\ gpu.position.lx <= SCREEN_WIDTH
  /\ obs.done.open => obs.done.pixels = SCREEN_WIDTH


\* a tile index read as a signed byte
Signed(idx) == IF idx >= 128 THEN idx - 256 ELSE idx

\* C14 (as claimed): with addressing mode 0 and tile index 0xFF the tile-data
\* address is the unsigned scheme's base (0x8000) minus 16; with mode 1 it is
\* the unsigned base + 16 * i.
C14_Original ==
  LET sel == gpu.lcdc.bg_tiledata_sel
      idx == gpu.fetcher.tile_num
  IN /\ (sel = 0 /\ idx = 255) => tiledata_addr(sel, idx) = VRAM_OFFSET - 16
     /\ sel # 0 => tiledata_addr(sel, idx) = VRAM_OFFSET + 16 * idx

\* C14 (amended): with addressing mode 0 the tile-data address is the signed
\* scheme's base 0x9000 plus 16 times the index read as a signed byte, so index
\* 0xFF gives 0x9000 - 16 = 0x8FF0; with mode 1 it is the unsigned base 0x8000
\* plus 16 * i, so index 5 gives base + 80.
C14_TileDataAddr ==
  LET sel == gpu.lcdc.bg_tiledata_sel
  IN /\ \A i \in Byte :
          tiledata_addr(sel, i) = IF sel = 0 THEN 36864 + 16 * Signed(i)
                                  ELSE VRAM_OFFSET + 16 * i
     /\ sel = 0 => tiledata_addr(sel, 255) = 36848
     /\ sel # 0 => tiledata_addr(sel, 5) = VRAM_OFFSET + 80
     /\ tiledata_addr(sel, gpu.fetcher.tile_num) \in VRAM_OFFSET..VRAM_END

\* the fetcher has read tile number 0xFF and then the low plane, in addressing
\* mode 0
C14_Witness ==
  /\ last.op = "tick" /\ gpu.lcdc.bg_tiledata_sel = 0
  /\ gpu.fetcher.tile_num = 255 /\ gpu.fetcher.state = "Sleep2"

====
